---- MODULE Spec2Model ----
(***************************************************************************)
(* The use-after-free detector over MIR dumps: the path enumerator         *)
(* (Function.flatten_cfg), the abstract interpreter                        *)
(* (Function.parser_statements, StatementParser) and the two detection     *)
(* rules (StatementParser.find_source_variables,                           *)
(* Function.detect_dangling_pointer_recursive).                            *)
(*                                                                         *)
(* A Variable object is a node of an arena `vars`: its identity is the     *)
(* path of names from its root (<<"_2">>, <<"_2", "0">>), the Python       *)
(* object reference None is the empty path.  Type names are sequences of   *)
(* characters, so that the prefix tests of Variable.set_type are computed. *)
(* A statement is the token structure the parser's splits and regular      *)
(* expressions recover from its text.  Names of roots are `_<digits>`      *)
(* tokens (locals) or carry no such substring (globals).                   *)
(***************************************************************************)
EXTENDS Integers, Sequences, FiniteSets, TLC

VARIABLES
    vars,           \* the Variable objects of the Function, by identity
    globals,        \* Function.global_variables: its keys, in insertion order
    pc,             \* position in Function.parser_statements
    out,            \* the findings printed by the last step
    fresh,          \* the same path interpreted on a freshly built Function
    freshGlobals,
    freshOut,
    freshPc,
    statements,     \* the statements of the function's basic blocks
    stmt_no,        \* statements interpreted on the current path
    last_dest,      \* the destination of the last statement and its state before it
    last_src,       \* the single source place of the last statement as it was looked at
    hist,           \* the statements interpreted so far on the current path
    basic_blocks,   \* Function.basic_blocks: <<[name, arrows]>>
    paths,          \* Function.paths
    idx,            \* flatten_cfg's scan index
    fpc,            \* position in Function.flatten_cfg
    line_parser,    \* the LineParser: function, parsing_function, parsing_basic_block
    lines_read      \* the lines LineParser.run has handed to parse_line

ivars == <<vars, globals, pc, out, fresh, freshGlobals, freshOut, freshPc,
           statements, stmt_no, last_dest, last_src, hist>>
cvars == <<basic_blocks, paths, idx, fpc, line_parser, lines_read>>
allvars == <<vars, globals, pc, out, fresh, freshGlobals, freshOut, freshPc,
             statements, stmt_no, last_dest, last_src, hist, basic_blocks, paths, idx, fpc,
             line_parser, lines_read>>

None == <<>>

(***************************************************************************)
(* Bounds of the model.                                                    *)
(***************************************************************************)
\* statements interpreted on one path
MaxStmts == 4
\* number of `->` successor entries in the whole control-flow graph
MaxEdges == 4

(***************************************************************************)
(* variable.py                                                             *)
(***************************************************************************)
TyI32 == <<"i", "3", "2">>
TyU8 == <<"u", "8">>
TyBool == <<"b", "o", "o", "l">>
TyStr == <<"&", "s", "t", "r">>

\* ['i8', 'i16', 'i32', 'i64', 'u8', 'u16', 'u32', 'u64', 'isize', 'usize',
\*  'bool', '&str']
scalars ==
    {<<"i", "8">>, <<"i", "1", "6">>, TyI32, <<"i", "6", "4">>,
     TyU8, <<"u", "1", "6">>, <<"u", "3", "2">>, <<"u", "6", "4">>,
     <<"i", "s", "i", "z", "e">>, <<"u", "s", "i", "z", "e">>, TyBool, TyStr}

\* str.startswith
StartsWith(s, p) == Len(s) >= Len(p) /\ SubSeq(s, 1, Len(p)) = p

\* set_type that looks at the `&` prefix before the list of scalars
set_type_prefix_first(type_name) ==
    IF StartsWith(type_name, <<"&">>) THEN "Reference"
    ELSE IF type_name \in scalars THEN "Scalar"
    ELSE IF StartsWith(type_name, <<"*", "m", "u", "t">>) THEN "Pointer"
    ELSE IF StartsWith(type_name, <<"*", "c", "o", "n", "s", "t">>) THEN "Pointer"
    ELSE "Object"

set_type(type_name) ==
    IF type_name \in scalars THEN "Scalar"
    ELSE IF StartsWith(type_name, <<"&">>) THEN "Reference"
    ELSE IF StartsWith(type_name, <<"*", "m", "u", "t">>) THEN "Pointer"
    ELSE IF StartsWith(type_name, <<"*", "c", "o", "n", "s", "t">>) THEN "Pointer"
    ELSE "Object"

Variable(var_name, var_type_name) ==
    [name |-> var_name,
     type_name |-> var_type_name,
     type |-> set_type(var_type_name),
     lifetime_state |-> "Alive",
     reference_to |-> None,
     referenced_by |-> <<>>,
     children |-> <<>>]

\* a re-typing that drops the edge of the Variable
reset_type_dropping_edge(g, v, new_type_name) ==
    [g EXCEPT ![v].type_name = new_type_name, ![v].type = set_type(new_type_name),
              ![v].reference_to = None]

reset_type(g, v, new_type_name) ==
    [g EXCEPT ![v].type_name = new_type_name, ![v].type = set_type(new_type_name)]

set_lifetime_state(g, v, state) == [g EXCEPT ![v].lifetime_state = state]

\* Variable.reset: the object itself, not its children
reset(g, v) ==
    [g EXCEPT ![v].lifetime_state = "Alive",
              ![v].reference_to = None,
              ![v].referenced_by = <<>>]

\* is_dangling_pointer without the look at the referent's lifetime_state
is_dangling_pointer_whatever_referent(g, v) ==
    g[v].type = "Pointer" /\ g[v].reference_to # None

\* is_dangling_pointer that takes a Reference for a pointer too
is_dangling_pointer_of_any_kind(g, v) ==
    /\ g[v].type \in {"Reference", "Pointer"}
    /\ g[v].reference_to # None
    /\ g[g[v].reference_to].lifetime_state = "Terminated"

is_dangling_pointer(g, v) ==
    /\ g[v].type = "Pointer"
    /\ g[v].reference_to # None
    /\ g[g[v].reference_to].lifetime_state = "Terminated"

add_child_variable(g, v, child, type_name) ==
    LET c == Append(v, child)
    IN  [n \in DOMAIN g \cup {c} |->
            IF n = c THEN Variable(child, type_name)
            ELSE IF n = v THEN [g[v] EXCEPT !.children = Append(@, c)]
            ELSE g[n]]

find_child_variable_by_name(g, v, variable_name) ==
    LET hits == {i \in 1..Len(g[v].children) : g[g[v].children[i]].name = variable_name}
    IN  IF hits = {} THEN None
        ELSE g[v].children[CHOOSE i \in hits : \A j \in hits : i <= j]

(***************************************************************************)
(* utils.py                                                                *)
(***************************************************************************)
LocalNames == {"_0", "_1", "_2", "_3", "_4", "_5", "_6"}

\* re.search(r'_\d+', name), over the names of the model
is_local_variable(variable_name) == variable_name \in LocalNames

set_reference(g, from, to) ==
    LET g1 == [g EXCEPT ![from].reference_to = to]
    IN  IF to # None
        THEN [g1 EXCEPT ![to].referenced_by = Append(@, from)]
        ELSE g1

(***************************************************************************)
(* A place as its text spells it: an optional `move `, an optional `&` or  *)
(* `&mut `, an optional `*` on the parent, the root (with `: type` when it *)
(* is not a local) and an optional projection `.<key>: <type>`.            *)
(***************************************************************************)
Place(mv, amp, star, root, root_type, child, child_type) ==
    [move |-> mv, amp |-> amp, star |-> star, root |-> root,
     root_type |-> root_type, child |-> child, child_type |-> child_type]

NoChild == ""

find_variable_name_and_type(p) ==
    [assignment_type |->
        IF p.amp THEN "Reference"
        ELSE IF p.star THEN "Dereference"
        ELSE "Regular",
     variable_vector |->
        <<[name |-> p.root,
           type |-> IF is_local_variable(p.root) THEN None ELSE p.root_type]>>
        \o (IF p.child # NoChild
            THEN <<[name |-> p.child, type |-> p.child_type]>>
            ELSE <<>>)]

(***************************************************************************)
(* statement_parser.py.  Every operator returns the arena it leaves; an    *)
(* operator that can end in an AssertionError / AttributeError returns     *)
(* status "crash", one that cannot return returns "hang".                  *)
(***************************************************************************)
InSeq(seq, x) == \E i \in 1..Len(seq) : seq[i] = x

is_pointer_like(g, v) == g[v].type = "Reference" \/ g[v].type = "Pointer"

Resolved(ok, g, gl, variable) ==
    [ok |-> ok, vars |-> g, globals |-> gl, variable |-> variable]

\* the root of a place: a declared local, or a global created on first sight
\* (assert(variable is not None), assert (variable_type is not None))
find_root_variable(g, gl, rootv) ==
    IF is_local_variable(rootv.name)
    THEN Resolved(<<rootv.name>> \in DOMAIN g, g, gl, <<rootv.name>>)
    ELSE IF InSeq(gl, rootv.name)
    THEN Resolved(TRUE, g, gl, <<rootv.name>>)
    ELSE IF rootv.type = None
    THEN Resolved(FALSE, g, gl, None)
    ELSE Resolved(TRUE,
                  [n \in DOMAIN g \cup {<<rootv.name>>} |->
                      IF n = <<rootv.name>> THEN Variable(rootv.name, rootv.type)
                      ELSE g[n]],
                  Append(gl, rootv.name), <<rootv.name>>)

\* the child of the root: created when missing, re-typed when it exists and
\* the place spells a type
find_child_of(r, cv, found) ==
    IF found = None
    THEN IF cv.type = None THEN Resolved(FALSE, r.vars, r.globals, None)
         ELSE Resolved(TRUE, add_child_variable(r.vars, r.variable, cv.name, cv.type),
                       r.globals, Append(r.variable, cv.name))
    ELSE Resolved(TRUE,
                  IF cv.type # None THEN reset_type(r.vars, found, cv.type) ELSE r.vars,
                  r.globals, found)

find_child_variable(r, cv) ==
    IF ~r.ok THEN r
    ELSE find_child_of(r, cv, find_child_variable_by_name(r.vars, r.variable, cv.name))

find_variable_chain(g, gl, variable_vector) ==
    IF Len(variable_vector) = 2
    THEN find_child_variable(find_root_variable(g, gl, variable_vector[1]),
                             variable_vector[2])
    ELSE find_root_variable(g, gl, variable_vector[1])

find_single_variable_of(r, assignment_type, moved) ==
    [ok |-> r.ok, vars |-> r.vars, globals |-> r.globals, variable |-> r.variable,
     assignment_type |-> assignment_type, moved |-> moved]

find_single_variable(g, gl, p) ==
    find_single_variable_of(
        find_variable_chain(g, gl, find_variable_name_and_type(p).variable_vector),
        find_variable_name_and_type(p).assignment_type, p.move)

\* the elements of `[e1, e2, ...]`, resolved left to right
RECURSIVE find_multiple_variables(_, _, _)
find_multiple_rest(r, rest) == [rest EXCEPT !.found = <<r>> \o @]

find_multiple_next(r, places) ==
    IF ~r.ok
    THEN [ok |-> FALSE, vars |-> r.vars, globals |-> r.globals, found |-> <<>>]
    ELSE find_multiple_rest(r, find_multiple_variables(r.vars, r.globals, Tail(places)))

find_multiple_variables(g, gl, places) ==
    IF places = <<>>
    THEN [ok |-> TRUE, vars |-> g, globals |-> gl, found |-> <<>>]
    ELSE find_multiple_next(find_single_variable(g, gl, Head(places)), places)

\* one `move <place>` operand of a call: a local, its child created on demand
\* and never re-typed
function_operand_child(g, rid, cv, found) ==
    IF found # None THEN [ok |-> TRUE, vars |-> g, variable |-> found]
    ELSE IF cv.type = None THEN [ok |-> FALSE, vars |-> g, variable |-> None]
    ELSE [ok |-> TRUE, vars |-> add_child_variable(g, rid, cv.name, cv.type),
          variable |-> Append(rid, cv.name)]

function_operand_chain(g, variable_vector) ==
    IF ~is_local_variable(variable_vector[1].name)
       \/ <<variable_vector[1].name>> \notin DOMAIN g
    THEN [ok |-> FALSE, vars |-> g, variable |-> None]
    ELSE IF Len(variable_vector) = 2
    THEN function_operand_child(g, <<variable_vector[1].name>>, variable_vector[2],
            find_child_variable_by_name(g, <<variable_vector[1].name>>,
                                        variable_vector[2].name))
    ELSE [ok |-> TRUE, vars |-> g, variable |-> <<variable_vector[1].name>>]

function_operand(g, p) ==
    function_operand_chain(g, find_variable_name_and_type(p).variable_vector)

RECURSIVE get_function_operands(_, _)
get_function_operands_rest(r, rest) == [rest EXCEPT !.operands = <<r.variable>> \o @]

get_function_operands_next(r, places) ==
    IF ~r.ok THEN [ok |-> FALSE, vars |-> r.vars, operands |-> <<>>]
    ELSE get_function_operands_rest(r, get_function_operands(r.vars, Tail(places)))

get_function_operands(g, places) ==
    IF places = <<>>
    THEN [ok |-> TRUE, vars |-> g, operands |-> <<>>]
    ELSE get_function_operands_next(function_operand(g, Head(places)), places)

RECURSIVE do_forget_recursive(_, _)
RECURSIVE do_forget_children(_, _)
do_forget_children(g, children) ==
    IF children = <<>> THEN g
    ELSE do_forget_children(do_forget_recursive(g, Head(children)), Tail(children))

do_forget_recursive(g, variable) ==
    set_lifetime_state(do_forget_children(g, g[variable].children), variable, "Forgot")

RECURSIVE rebind(_, _, _)
rebind(g, refs, dest_variable) ==
    IF refs = <<>> THEN g
    ELSE rebind(set_reference(g, Head(refs), dest_variable), Tail(refs), dest_variable)

(***************************************************************************)
(* handle_moving_recursive appends to dest_variable.referenced_by while it *)
(* iterates over src_variable.referenced_by: when both are the same        *)
(* non-empty list the loop never ends.                                     *)
(***************************************************************************)
RECURSIVE handle_moving_recursive(_, _, _)
RECURSIVE handle_moving_children(_, _, _)
handle_moving_children(r, children, dest_variable) ==
    IF children = <<>> \/ r.status # "ok" THEN r
    ELSE handle_moving_children(
            handle_moving_recursive(r.vars, Head(children), dest_variable),
            Tail(children), dest_variable)

handle_moving_references(r, src_variable, dest_variable) ==
    IF r.status # "ok" THEN r
    ELSE IF src_variable = dest_variable /\ r.vars[src_variable].referenced_by # <<>>
    THEN [vars |-> r.vars, status |-> "hang"]
    ELSE [vars |-> rebind(r.vars, r.vars[src_variable].referenced_by, dest_variable),
          status |-> "ok"]

handle_moving_recursive(g, src_variable, dest_variable) ==
    handle_moving_references(
        handle_moving_children([vars |-> g, status |-> "ok"],
                               g[src_variable].children, dest_variable),
        src_variable, dest_variable)

\* what `dest.reference_to.set_lifetime_state(StatementType.TerminateLifetime)`
\* stores: a StatementType member, which no LifetimeState member equals
TerminateLifetime == "StatementType.TerminateLifetime"

\* a pointer copy that makes the destination point at the source pointer
copy_reference_to_source(g, dest_variable, src_variable) ==
    set_reference(g, dest_variable, src_variable)

\* `self.set_reference(dest_variable, src_variable.reference_to)`
copy_reference(g, dest_variable, src_variable) ==
    set_reference(g, dest_variable, g[src_variable].reference_to)

\* an assignment that never makes a destination point to a Scalar
do_single_variable_assignment_sparing_scalars(g, dest_variable, dest_assignment_type, src_variable, src_assignment_type, src_moved) ==
    IF src_variable = None \/ ~is_pointer_like(g, dest_variable)
    THEN [vars |-> g, status |-> "ok"]
    ELSE IF g[src_variable].type = "Object" /\ dest_assignment_type = "Regular"
    THEN [vars |-> set_reference(g, dest_variable, src_variable), status |-> "ok"]
    ELSE IF is_pointer_like(g, src_variable)
    THEN [vars |-> copy_reference(g, dest_variable, src_variable), status |-> "ok"]
    ELSE [vars |-> g, status |-> "ok"]

\* an assignment that makes every Reference or Pointer destination point to
\* its source, whatever the kind of the source and the two modes
do_single_variable_assignment_always_pointing(g, dest_variable, dest_assignment_type, src_variable, src_assignment_type, src_moved) ==
    IF src_variable # None /\ is_pointer_like(g, dest_variable)
    THEN [vars |-> set_reference(g, dest_variable, src_variable), status |-> "ok"]
    ELSE [vars |-> g, status |-> "ok"]

do_single_variable_assignment(g, dest_variable, dest_assignment_type, src_variable, src_assignment_type, src_moved) ==
    LET same == [vars |-> g, status |-> "ok"]
        dt == g[dest_variable].type
    IN  IF dt = "Scalar" THEN same
        ELSE IF dt = "Object"
        THEN IF src_variable = None THEN same
             ELSE IF g[src_variable].type = "Object" /\ src_moved
             THEN handle_moving_recursive(g, src_variable, dest_variable)
             ELSE same
        ELSE IF dt = "Reference" \/ dt = "Pointer"
        THEN IF src_variable = None THEN same
             ELSE IF g[src_variable].type = "Scalar"
             THEN IF dest_assignment_type # "Dereference"
                     /\ src_assignment_type = "Reference"
                  THEN [vars |-> set_reference(g, dest_variable, src_variable),
                        status |-> "ok"]
                  ELSE same
             ELSE IF g[src_variable].type = "Object"
             THEN IF dest_assignment_type = "Regular"
                  THEN [vars |-> set_reference(g, dest_variable, src_variable),
                        status |-> "ok"]
                  ELSE IF dest_assignment_type # "Dereference"
                          \/ src_assignment_type # "Regular"
                  THEN [vars |-> g, status |-> "crash"]
                  ELSE IF g[dest_variable].reference_to # None
                  THEN [vars |-> set_reference(
                                   set_lifetime_state(g, g[dest_variable].reference_to,
                                                      TerminateLifetime),
                                   dest_variable, src_variable),
                        status |-> "ok"]
                  ELSE same
             ELSE IF is_pointer_like(g, src_variable)
             THEN [vars |-> copy_reference(g, dest_variable, src_variable),
                   status |-> "ok"]
             ELSE same
        ELSE same

(***************************************************************************)
(* A statement: `dest = rhs` (op "assign") whose rhs has one of the forms  *)
(* the parser tells apart, `StorageDead(<local>)` (op "dead"), or anything *)
(* else (op "other").                                                      *)
(*   form "call":   is_function_call, src the `move` operands, forget      *)
(*                  whether the callee matches mem::forget                 *)
(*   form "const":  is_const                                               *)
(*   form "vector": is_variable_vector, src the elements                   *)
(*   form "skip":   should_skip                                            *)
(*   form "place":  a single source place, src its one element             *)
(***************************************************************************)
NoPlace == Place(FALSE, FALSE, FALSE, "", None, NoChild, None)

Assign(dest, form, src, forget) ==
    [op |-> "assign", dest |-> dest, form |-> form, src |-> src,
     forget |-> forget, operand |-> ""]

StorageDead(local) ==
    [op |-> "dead", dest |-> NoPlace, form |-> "", src |-> <<>>,
     forget |-> FALSE, operand |-> local]

OtherStatement ==
    [op |-> "other", dest |-> NoPlace, form |-> "", src |-> <<>>,
     forget |-> FALSE, operand |-> ""]

\* a finding as it is printed: where, the variable and what it points to
Finding(site, g, v) ==
    [site |-> site, variable |-> v, reference_to |-> g[v].reference_to]

Result(g, gl, findings, status) ==
    [vars |-> g, globals |-> gl, out |-> findings, status |-> status]

\* the assignment of the elements of a vector to the children "0", "1", ...
RECURSIVE vector_assignment(_, _, _, _, _)
vector_child(g, dest_variable, i, child) ==
    IF child = None THEN Append(dest_variable, ToString(i)) ELSE child

vector_with_child(g, dest_variable, i, type_name, child) ==
    IF child = None THEN add_child_variable(g, dest_variable, ToString(i), type_name)
    ELSE g

vector_next(r, dest_variable, dest_assignment_type, found, i) ==
    IF r.status # "ok" THEN r
    ELSE vector_assignment(r.vars, dest_variable, dest_assignment_type, found, i + 1)

vector_assignment(g, dest_variable, dest_assignment_type, found, i) ==
    IF i >= Len(found) THEN [vars |-> g, status |-> "ok"]
    ELSE vector_next(
            do_single_variable_assignment(
                vector_with_child(g, dest_variable, i, g[found[i + 1].variable].type_name,
                    find_child_variable_by_name(g, dest_variable, ToString(i))),
                vector_child(g, dest_variable, i,
                    find_child_variable_by_name(g, dest_variable, ToString(i))),
                dest_assignment_type, found[i + 1].variable,
                found[i + 1].assignment_type, found[i + 1].moved),
            dest_variable, dest_assignment_type, found, i)

\* find_source_variables: the inline detection is reached by a single
\* source place only (the other forms return before it)
Sources(ok, g, gl, found, findings) ==
    [ok |-> ok, vars |-> g, globals |-> gl, found |-> found, out |-> findings]

detect_source(r) ==
    IF r.ok /\ is_dangling_pointer(r.vars, r.variable)
    THEN <<Finding("source", r.vars, r.variable)>>
    ELSE <<>>

single_source(r) == Sources(r.ok, r.vars, r.globals, <<r>>, detect_source(r))

vector_sources(r) == Sources(r.ok, r.vars, r.globals, r.found, <<>>)

find_source_variables(g, gl, s) ==
    IF s.form = "const" THEN Sources(TRUE, g, gl, <<>>, <<>>)
    ELSE IF s.form = "vector"
    THEN vector_sources(find_multiple_variables(g, gl, s.src))
    ELSE single_source(find_single_variable(g, gl, s.src[1]))

\* handle_mem_forget whose pattern matches no callee
handle_mem_forget_missed(g, s, operands) == g

handle_mem_forget(g, s, operands) ==
    IF s.forget THEN do_forget_recursive(g, operands[1]) ELSE g

\* a propagation that does not look at `num_operands == 1`
call_propagate_from_first(g, gl, dest_variable, operands) ==
    IF is_pointer_like(g, dest_variable) /\ Len(operands) >= 1
       /\ is_pointer_like(g, operands[1])
    THEN Result(set_reference(g, dest_variable, g[operands[1]].reference_to),
                gl, <<>>, "ok")
    ELSE Result(g, gl, <<>>, "ok")

call_propagate(g, gl, dest_variable, operands) ==
    IF is_pointer_like(g, dest_variable) /\ Len(operands) = 1
       /\ is_pointer_like(g, operands[1])
    THEN Result(set_reference(g, dest_variable, g[operands[1]].reference_to),
                gl, <<>>, "ok")
    ELSE Result(g, gl, <<>>, "ok")

call_with_operands(gl, dest_variable, s, ops) ==
    \* an operand that is no declared local; assert(len(operands) == 1)
    IF ~ops.ok \/ (s.forget /\ Len(ops.operands) # 1)
    THEN Result(ops.vars, gl, <<>>, "crash")
    ELSE call_propagate(handle_mem_forget(ops.vars, s, ops.operands), gl,
                        dest_variable, ops.operands)

call_assignment(g, gl, dest_variable, s) ==
    call_with_operands(gl, dest_variable, s, get_function_operands(g, s.src))

assign_sources(dest_variable, dest_assignment_type, srcs) ==
    IF ~srcs.ok THEN [vars |-> srcs.vars, status |-> "crash"]
    ELSE IF Len(srcs.found) > 1
    THEN vector_assignment(srcs.vars, dest_variable, dest_assignment_type,
                           srcs.found, 0)
    ELSE IF Len(srcs.found) = 1
    THEN do_single_variable_assignment(srcs.vars, dest_variable,
                dest_assignment_type, srcs.found[1].variable,
                srcs.found[1].assignment_type, srcs.found[1].moved)
    ELSE do_single_variable_assignment(srcs.vars, dest_variable,
                dest_assignment_type, None, "Regular", FALSE)

\* a print of a finding that raises
source_result_raising(srcs, r) ==
    Result(r.vars, srcs.globals, srcs.out,
           IF srcs.out # <<>> THEN "crash" ELSE r.status)

source_result(srcs, r) == Result(r.vars, srcs.globals, srcs.out, r.status)

source_assignment_of(dest_variable, dest_assignment_type, srcs) ==
    source_result(srcs, assign_sources(dest_variable, dest_assignment_type, srcs))

source_assignment(g, gl, dest_variable, dest_assignment_type, s) ==
    source_assignment_of(dest_variable, dest_assignment_type,
                         find_source_variables(g, gl, s))

\* parser_statement without `dest_variable.set_lifetime_state(Alive)`
revive_left_out(g, dest_variable) == g

\* the destination is brought back to life before the rhs is looked at
revive(g, dest_variable) == set_lifetime_state(g, dest_variable, "Alive")

\* an assignment that looks at its destination as it looks at a source
assignment_rhs_checking_destination(g, d, s) ==
    IF is_dangling_pointer(g, d.variable)
    THEN Result(g, d.globals, <<[site |-> "source", variable |-> d.variable,
                                 reference_to |-> g[d.variable].reference_to]>>, "ok")
    ELSE IF s.form = "skip" THEN Result(g, d.globals, <<>>, "ok")
    ELSE IF s.form = "call" THEN call_assignment(g, d.globals, d.variable, s)
    ELSE source_assignment(g, d.globals, d.variable, d.assignment_type, s)

\* an assignment that makes its destination point to nothing when the rhs is
\* a const or is skipped
assignment_rhs_const_clears(g, d, s) ==
    IF s.form = "skip" \/ s.form = "const"
    THEN Result(set_reference(g, d.variable, None), d.globals, <<>>, "ok")
    ELSE IF s.form = "call" THEN call_assignment(g, d.globals, d.variable, s)
    ELSE source_assignment(g, d.globals, d.variable, d.assignment_type, s)

assignment_rhs(g, d, s) ==
    IF s.form = "skip" THEN Result(g, d.globals, <<>>, "ok")
    ELSE IF s.form = "call" THEN call_assignment(g, d.globals, d.variable, s)
    ELSE source_assignment(g, d.globals, d.variable, d.assignment_type, s)

\* find_destination_variable: assert(not moved)
assignment(d, s) ==
    IF ~d.ok \/ d.moved THEN Result(d.vars, d.globals, <<>>, "crash")
    ELSE assignment_rhs(revive(d.vars, d.variable), d, s)

\* StorageDead that ends the lifetime of the children with their parent
terminate_lifetime_with_children(g, gl, variable) ==
    IF variable \notin DOMAIN g THEN Result(g, gl, <<>>, "crash")
    ELSE IF g[variable].lifetime_state = "Forgot" THEN Result(g, gl, <<>>, "ok")
    ELSE Result([n \in DOMAIN g |->
                    IF Len(n) >= Len(variable) /\ SubSeq(n, 1, Len(variable)) = variable
                    THEN [g[n] EXCEPT !.lifetime_state = "Terminated"]
                    ELSE g[n]],
                gl, <<>>, "ok")

\* StorageDead without the look at LifetimeState.Forgot
terminate_lifetime_always(g, gl, variable) ==
    IF variable \notin DOMAIN g THEN Result(g, gl, <<>>, "crash")
    ELSE Result(set_lifetime_state(g, variable, "Terminated"), gl, <<>>, "ok")

terminate_lifetime(g, gl, variable) ==
    IF variable \notin DOMAIN g THEN Result(g, gl, <<>>, "crash")
    ELSE IF g[variable].lifetime_state = "Forgot" THEN Result(g, gl, <<>>, "ok")
    ELSE Result(set_lifetime_state(g, variable, "Terminated"), gl, <<>>, "ok")

parser_statement(g, gl, s) ==
    IF s.op = "assign" THEN assignment(find_single_variable(g, gl, s.dest), s)
    ELSE IF s.op = "dead" THEN terminate_lifetime(g, gl, <<s.operand>>)
    ELSE Result(g, gl, <<>>, "ok")

(***************************************************************************)
(* function.py: the function under analysis and parser_statements          *)
(***************************************************************************)
TyObject == <<"T">>
TyConstPtr == <<"*", "c", "o", "n", "s", "t", " ", "T">>
TyRef == <<"&", "T">>

\* fn f(_1: *const T) with locals _2: T, _3: *const T, _4: &T, _5: i32
args == <<"_1">>
local_variables == <<"_1", "_2", "_3", "_4", "_5">>

DeclaredType(name) ==
    CASE name = "_1" -> TyConstPtr
      [] name = "_2" -> TyObject
      [] name = "_3" -> TyConstPtr
      [] name = "_4" -> TyRef
      [] OTHER -> TyI32

\* the Variables after LineParser has built the Function
Built == [n \in {<<local_variables[i]>> : i \in 1..Len(local_variables)} |->
            Variable(n[1], DeclaredType(n[1]))]

RECURSIVE reset_all(_, _)
reset_all(g, names) ==
    IF names = <<>> THEN g
    ELSE reset_all(reset(g, <<Head(names)>>), Tail(names))

reset_variables_state(g, gl) == reset_all(reset_all(g, local_variables), gl)

RECURSIVE detect_dangling_pointer_recursive(_, _)
RECURSIVE detect_children(_, _)
detect_children(g, children) ==
    IF children = <<>> THEN <<>>
    ELSE detect_dangling_pointer_recursive(g, Head(children))
         \o detect_children(g, Tail(children))

\* detect_dangling_pointer_recursive without the loop over the children
detect_dangling_pointer_flat(g, variable) ==
    IF is_dangling_pointer(g, variable)
    THEN <<Finding("final", g, variable)>>
    ELSE <<>>

detect_dangling_pointer_recursive(g, variable) ==
    detect_children(g, g[variable].children)
    \o (IF is_dangling_pointer(g, variable)
        THEN <<Finding("final", g, variable)>>
        ELSE <<>>)

RECURSIVE detect_globals(_, _)
detect_globals(g, names) ==
    IF names = <<>> THEN <<>>
    ELSE detect_dangling_pointer_recursive(g, <<Head(names)>>)
         \o detect_globals(g, Tail(names))

\* the walk from the parameters started at the parameters themselves
detect_args_from_roots(g, names) == detect_globals(g, names)

\* of a parameter only the children are walked
RECURSIVE detect_args(_, _)
detect_args(g, names) ==
    IF names = <<>> THEN <<>>
    ELSE detect_children(g, g[<<Head(names)>>].children)
         \o detect_args(g, Tail(names))

path_end_detection(g, gl) == detect_globals(g, gl) \o detect_args(g, args)

(***************************************************************************)
(* The statements the paths of the analysed function are made of.  Every   *)
(* path begins with the entry block; with an entry block that holds only   *)
(* its terminator, the paths carry any sequences of these statements.      *)
(***************************************************************************)
Local(name) == Place(FALSE, FALSE, FALSE, name, None, NoChild, None)
AddressOf(name) == Place(FALSE, TRUE, FALSE, name, None, NoChild, None)
Deref(name) == Place(FALSE, FALSE, TRUE, name, None, NoChild, None)
Global(name, type_name) == Place(FALSE, FALSE, FALSE, name, type_name, NoChild, None)
Field(name, key, type_name) == Place(FALSE, FALSE, FALSE, name, None, key, type_name)
DerefField(name, key, type_name) == Place(FALSE, FALSE, TRUE, name, None, key, type_name)

\* _3 = &_2;
PtrTakesAddress == Assign(Local("_3"), "place", <<AddressOf("_2")>>, FALSE)
\* _4 = &_2;
RefTakesAddress == Assign(Local("_4"), "place", <<AddressOf("_2")>>, FALSE)
\* _5 = (*_3);
ReadPtr == Assign(Local("_5"), "place", <<Deref("_3")>>, FALSE)
\* _5 = (*_4);
ReadRef == Assign(Local("_5"), "place", <<Deref("_4")>>, FALSE)
\* (GLOBAL: *const T) = _3;
GlobalGetsPtr == Assign(Global("GLOBAL", TyConstPtr), "place", <<Local("_3")>>, FALSE)
\* ((*_1).0: *const T) = _3;
ParamFieldGetsPtr ==
    Assign(DerefField("_1", "0", TyConstPtr), "place", <<Local("_3")>>, FALSE)
\* _1 = _3;
ParamGetsPtr == Assign(Local("_1"), "place", <<Local("_3")>>, FALSE)
\* (_2.0: *const T) = _3;
FieldGetsPtr == Assign(Field("_2", "0", TyConstPtr), "place", <<Local("_3")>>, FALSE)
\* _5 = (_2.0: *const T);
ReadField == Assign(Local("_5"), "place", <<Field("_2", "0", TyConstPtr)>>, FALSE)
\* ((*GLOBAL: *const T).0: *const T) = _3;
GlobalFieldGetsPtr ==
    Assign(Place(FALSE, FALSE, TRUE, "GLOBAL", TyConstPtr, "0", TyConstPtr),
           "place", <<Local("_3")>>, FALSE)
\* _2 = const 7;
ConstToReferent == Assign(Local("_2"), "const", <<>>, FALSE)
\* _2 = (*_3);
ReferentReadsPtr == Assign(Local("_2"), "place", <<Deref("_3")>>, FALSE)

CoreStatements ==
    {PtrTakesAddress, RefTakesAddress, ReadPtr, ReadRef, GlobalGetsPtr,
     GlobalFieldGetsPtr, ParamFieldGetsPtr, ParamGetsPtr, FieldGetsPtr, ReadField,
     ConstToReferent, ReferentReadsPtr, StorageDead("_2"), OtherStatement}

Moved(name) == Place(TRUE, FALSE, FALSE, name, None, NoChild, None)

\* _5 = const core::mem::forget(move _2) -> [return: bb1, unwind: bb2];
ForgetReferent == Assign(Local("_5"), "call", <<Moved("_2")>>, TRUE)

\* forget and lifetime-end, with nothing that assigns to the forgotten _2
ForgetStatements ==
    {PtrTakesAddress, ReadField, ForgetReferent, StorageDead("_2"), ReadPtr,
     OtherStatement}

\* forget and lifetime-end, with an assignment to the forgotten _2
ForgetWriteStatements ==
    {PtrTakesAddress, ForgetReferent, ConstToReferent, StorageDead("_2"), ReadPtr}

\* (_2.0: &T) = _4;
FieldGetsRef == Assign(Field("_2", "0", TyRef), "place", <<Local("_4")>>, FALSE)
\* _4 = (_2.0: &T);
RefReadsField == Assign(Local("_4"), "place", <<Field("_2", "0", TyRef)>>, FALSE)
\* _5 = (*_1);
ReadParam == Assign(Local("_5"), "place", <<Deref("_1")>>, FALSE)

\* address-of, then copies from pointer to pointer and reference to reference
CopyStatements ==
    {PtrTakesAddress, RefTakesAddress, ParamGetsPtr, FieldGetsRef, RefReadsField,
     StorageDead("_2"), ReadParam}

(***************************************************************************)
(* Function.parser_statements: for each path, reset, the statements of its *)
(* blocks in order, then the walk from the globals and the parameters.     *)
(***************************************************************************)
\* what the last statement assigned to, and the lifetime_state that
\* Variable had when the statement began ("absent": created by it)
NoDest == [variable |-> None, was |-> "absent"]

destination_of(g, d) ==
    IF ~d.ok THEN NoDest
    ELSE [variable |-> d.variable,
          was |-> IF d.variable \in DOMAIN g THEN g[d.variable].lifetime_state
                  ELSE "absent"]

destination_before(g, gl, s) ==
    IF s.op = "assign" THEN destination_of(g, find_single_variable(g, gl, s.dest))
    ELSE NoDest

\* the Variable a single source place resolved to, with its kind, its
\* reference_to and the lifetime_state of its referent at that moment
NoSrc == [variable |-> None, type |-> "", reference_to |-> None, referent |-> ""]

source_seen(g, v) ==
    [variable |-> v, type |-> g[v].type, reference_to |-> g[v].reference_to,
     referent |-> IF g[v].reference_to = None THEN ""
                  ELSE g[g[v].reference_to].lifetime_state]

source_of(r) == IF r.ok THEN source_seen(r.vars, r.variable) ELSE NoSrc

source_after(d, s) ==
    IF ~d.ok \/ d.moved THEN NoSrc
    ELSE source_of(find_single_variable(revive(d.vars, d.variable), d.globals,
                                        s.src[1]))

source_before(g, gl, s) ==
    IF s.op = "assign" /\ s.form = "place"
    THEN source_after(find_single_variable(g, gl, s.dest), s)
    ELSE NoSrc

\* The statements of the current path interpreted so far (log), whether the
\* current path is the first one of its function or a later one (path), and
\* whether its file is the first one the driver opened or a later one (file).
\* The history is kept by the specifications that state properties of whole
\* paths (on).
NoHist == [on |-> FALSE, log |-> <<>>, path |-> "none", file |-> "first"]
NewHist == [on |-> TRUE, log |-> <<>>, path |-> "none", file |-> "first"]
LaterFileHist == [on |-> TRUE, log |-> <<>>, path |-> "none", file |-> "later"]

hist_begin(h) ==
    IF h.on
    THEN [h EXCEPT !.log = <<>>, !.path = IF @ = "none" THEN "first" ELSE "later"]
    ELSE h
hist_statement(h, s) == IF h.on THEN [h EXCEPT !.log = Append(@, s)] ELSE h

InitInterp ==
    /\ vars = Built
    /\ globals = <<>>
    /\ pc = "idle"
    /\ out = <<>>
    /\ fresh = Built
    /\ freshGlobals = <<>>
    /\ freshOut = <<>>
    /\ freshPc = "idle"
    /\ stmt_no = 0
    /\ last_dest = NoDest
    /\ last_src = NoSrc

StartPath ==
    /\ pc = "idle"
    /\ vars' = reset_variables_state(vars, globals)
    /\ fresh' = Built
    /\ freshGlobals' = <<>>
    /\ out' = <<>>
    /\ freshOut' = <<>>
    /\ pc' = "run"
    /\ freshPc' = "run"
    /\ stmt_no' = 0
    /\ last_dest' = NoDest
    /\ last_src' = NoSrc
    /\ hist' = hist_begin(hist)
    /\ UNCHANGED <<globals, statements>>
    /\ UNCHANGED cvars

StatementEffect(r, f) ==
    /\ vars' = r.vars
    /\ globals' = r.globals
    /\ out' = r.out
    /\ pc' = IF r.status = "ok" THEN "run" ELSE r.status
    /\ IF freshPc = "run"
       THEN /\ fresh' = f.vars
            /\ freshGlobals' = f.globals
            /\ freshOut' = f.out
            /\ freshPc' = IF f.status = "ok" THEN "run" ELSE f.status
       ELSE UNCHANGED <<fresh, freshGlobals, freshOut, freshPc>>

Statement(s) ==
    /\ pc = "run"
    /\ stmt_no < MaxStmts
    /\ StatementEffect(parser_statement(vars, globals, s),
                       parser_statement(fresh, freshGlobals, s))
    /\ stmt_no' = stmt_no + 1
    /\ last_dest' = destination_before(vars, globals, s)
    /\ last_src' = source_before(vars, globals, s)
    /\ hist' = hist_statement(hist, s)
    /\ UNCHANGED statements
    /\ UNCHANGED cvars

EndPath ==
    /\ pc = "run"
    /\ out' = path_end_detection(vars, globals)
    /\ freshOut' = IF freshPc = "run" THEN path_end_detection(fresh, freshGlobals)
                   ELSE freshOut
    /\ pc' = "idle"
    /\ freshPc' = IF freshPc = "run" THEN "idle" ELSE freshPc
    /\ last_dest' = NoDest
    /\ last_src' = NoSrc
    /\ hist' = hist
    /\ UNCHANGED <<vars, globals, fresh, freshGlobals, statements, stmt_no>>
    /\ UNCHANGED cvars

\* set_function that hands the Function of the previous file to the next one
set_function_reusing(f) == f

\* LineParser.set_function: `self.function = Function(name, args, self.filepath)`,
\* a new object with containers of its own, whatever the previous LineParser held
set_function(f) == [vars |-> Built, globals |-> <<>>]

\* main: the loop goes on to the next file once parser.run() has returned
NextFile ==
    /\ pc = "idle"
    /\ hist.path # "none"
    /\ LET f == set_function([vars |-> vars, globals |-> globals])
       IN  /\ vars' = f.vars
           /\ globals' = f.globals
    /\ out' = <<>>
    /\ fresh' = Built
    /\ freshGlobals' = <<>>
    /\ freshOut' = <<>>
    /\ freshPc' = "idle"
    /\ stmt_no' = 0
    /\ last_dest' = NoDest
    /\ last_src' = NoSrc
    /\ hist' = LaterFileHist
    /\ UNCHANGED <<pc, statements>>
    /\ UNCHANGED cvars

(***************************************************************************)
(* line_parser.py: LineParser.parse_line and the Function it builds.  A    *)
(* line is the sequence of its tokens (line.split()), a token the sequence *)
(* of its characters.                                                      *)
(***************************************************************************)
MaxLines == 4

\* the lines of the files read:
\*   (blank)   // scope 1   fn f() -> () {   bb0: {   bb1: {   }
\*   let _2: T;   _3 = &_2;   return;
Lines ==
    {<<>>,
     << <<"/", "/">>, <<"s", "c", "o", "p", "e">>, <<"1">> >>,
     << <<"f", "n">>, <<"f", "(", ")">>, <<"-", ">">>, <<"(", ")">>, <<"{">> >>,
     << <<"b", "b", "0", ":">>, <<"{">> >>,
     << <<"b", "b", "1", ":">>, <<"{">> >>,
     << <<"}">> >>,
     << <<"l", "e", "t">>, <<"_", "2", ":">>, <<"T", ";">> >>,
     << <<"_", "3">>, <<"=">>, <<"&", "_", "2", ";">> >>,
     << <<"r", "e", "t", "u", "r", "n", ";">> >>}

is_empty_line(line) == Len(line) = 0

is_comment(line) == Len(line) # 0 /\ line[1] = <<"/", "/">>

is_function_declaration(line) ==
    \/ line[1] = <<"f", "n">> /\ line[Len(line)] = <<"{">>
    \/ /\ line[1] = <<"p", "u", "b">>
       /\ line[2] = <<"f", "n">>
       /\ line[Len(line)] = <<"{">>

is_basic_block_declaration(line) ==
    StartsWith(line[1], <<"b", "b">>) /\ line[Len(line)] = <<"{">>

is_end(line) == line[1] = <<"}">>

is_variable_declaration(line) == line[1] = <<"l", "e", "t">>

\* token.split(sep)[0]: the characters before the first sep
RECURSIVE split_first(_, _)
split_first(token, sep) ==
    IF token = <<>> \/ Head(token) = sep THEN <<>>
    ELSE <<Head(token)>> \o split_first(Tail(token), sep)

\* `self.function is None`
NoFunction ==
    [name |-> <<>>, basic_blocks |-> <<>>, bb_idx |-> -1, local_variables |-> <<>>]

\* Function.__init__, for the name before the `(` of the header
NewFunction(line) ==
    [name |-> split_first(line[2], "("), basic_blocks |-> <<>>, bb_idx |-> -1,
     local_variables |-> <<>>]

\* Function.set_basic_block
set_basic_block(f, line) ==
    [f EXCEPT !.basic_blocks =
                  Append(@, [name |-> split_first(line[1], ":"), statements |-> <<>>]),
              !.bb_idx = @ + 1]

\* set_statement that takes the function's first block for the current one
set_statement_first_block(f, statement) ==
    [f EXCEPT !.basic_blocks[1].statements = Append(@, statement)]

\* Function.set_statement past its assert: basic_blocks[bb_idx].add_statement
set_statement(f, statement) ==
    [f EXCEPT !.basic_blocks[f.bb_idx + 1].statements = Append(@, statement)]

\* LineParser.set_variable: the name before `: `
set_variable(f, line) ==
    [f EXCEPT !.local_variables = Append(@, split_first(line[2], ":"))]

\* LineParser.__init__
NewLineParser ==
    [function |-> NoFunction, parsing_function |-> FALSE,
     parsing_basic_block |-> FALSE, raised |-> ""]

\* LineParser.parse_line; raised: the exception that left it
parse_line(lp, line) ==
    IF is_empty_line(line) THEN lp
    ELSE IF is_comment(line) THEN lp
    ELSE IF is_function_declaration(line)
    THEN [lp EXCEPT !.function = NewFunction(line), !.parsing_function = TRUE]
    ELSE IF ~lp.parsing_function THEN lp
    ELSE IF is_basic_block_declaration(line)
    THEN [lp EXCEPT !.function = set_basic_block(@, line),
                    !.parsing_basic_block = TRUE]
    ELSE IF lp.parsing_basic_block
    THEN IF is_end(line) THEN [lp EXCEPT !.parsing_basic_block = FALSE]
         ELSE IF ~(lp.function.bb_idx >= 0)
         THEN [lp EXCEPT !.raised = "AssertionError"]
         ELSE [lp EXCEPT !.function = set_statement(@, line)]
    ELSE IF is_variable_declaration(line)
    THEN [lp EXCEPT !.function = set_variable(@, line)]
    ELSE lp

\* no line has been handed to parse_line
FileUnread ==
    /\ line_parser = NewLineParser
    /\ lines_read = <<>>

(***************************************************************************)
(* basic_block.py and Function.flatten_cfg                                 *)
(***************************************************************************)
BlockNames == <<"bb0", "bb1", "bb2", "bb3">>
\* a label no block of the function carries
Undeclared == "bb9"
BBLabels == {BlockNames[i] : i \in 1..Len(BlockNames)} \cup {Undeclared}

\* name.startswith('bb'), over the labels of the model
is_basic_block_name(name) == name \in BBLabels

\* The right-hand side of a statement holding `->`: `[t: l1, t: l2]`
\* (bracket) or a single token.
Arrow(bracket, targets) == [bracket |-> bracket, targets |-> targets]

RECURSIVE find_successors(_)
find_successors(arrows) ==
    IF arrows = <<>> THEN <<>>
    ELSE LET a == Head(arrows)
         IN  (IF a.bracket THEN a.targets
              ELSE IF is_basic_block_name(a.targets[1]) THEN <<a.targets[1]>>
              ELSE <<>>)
             \o find_successors(Tail(arrows))

\* the block of that name in a list of blocks, NoBlock for Python's None
NoBlock == ""

find_basic_block_by_name(bb_name, bb_vector) ==
    IF \E i \in 1..Len(bb_vector) : bb_vector[i] = bb_name
    THEN bb_name
    ELSE NoBlock

block_named(name) ==
    basic_blocks[CHOOSE i \in 1..Len(basic_blocks) : basic_blocks[i].name = name]

block_names == [i \in 1..Len(basic_blocks) |-> basic_blocks[i].name]

\* the loop over the successors without `if bb is not None: continue`
RECURSIVE extend_with_loopback(_, _)
extend_with_loopback(current_flow, successors) ==
    IF successors = <<>> THEN [flows |-> <<>>, ok |-> TRUE]
    ELSE IF find_basic_block_by_name(Head(successors), block_names) = NoBlock
    THEN [flows |-> <<>>, ok |-> FALSE]
    ELSE LET rest == extend_with_loopback(current_flow, Tail(successors))
         IN  [rest EXCEPT !.flows = <<Append(current_flow, Head(successors))>> \o @]

\* the loop over the successors left after the first flow it appends
RECURSIVE extend_first_only(_, _)
extend_first_only(current_flow, successors) ==
    IF successors = <<>> THEN [flows |-> <<>>, ok |-> TRUE]
    ELSE IF find_basic_block_by_name(Head(successors), current_flow) # NoBlock
    THEN extend_first_only(current_flow, Tail(successors))
    ELSE IF find_basic_block_by_name(Head(successors), block_names) = NoBlock
    THEN [flows |-> <<>>, ok |-> FALSE]
    ELSE [flows |-> <<Append(current_flow, Head(successors))>>, ok |-> TRUE]

\* the body of `for succ in successors`: the flows appended, and whether
\* the assert on an unknown label let the loop finish
RECURSIVE extend(_, _)
extend(current_flow, successors) ==
    IF successors = <<>> THEN [flows |-> <<>>, ok |-> TRUE]
    ELSE IF find_basic_block_by_name(Head(successors), current_flow) # NoBlock
    THEN extend(current_flow, Tail(successors))
    ELSE IF find_basic_block_by_name(Head(successors), block_names) = NoBlock
    THEN [flows |-> <<>>, ok |-> FALSE]
    ELSE LET rest == extend(current_flow, Tail(successors))
         IN  [rest EXCEPT !.flows = <<Append(current_flow, Head(successors))>> \o @]

\* list.remove: the first element equal to x
remove(seq, x) ==
    LET i == CHOOSE k \in 1..Len(seq) :
                 seq[k] = x /\ \A j \in 1..(k - 1) : seq[j] # x
    IN  SubSeq(seq, 1, i - 1) \o SubSeq(seq, i + 1, Len(seq))

\* a block ends without successor, with `goto -> l` or with `switchInt -> [t: l1, t: l2]`
Terminators ==
    {<<>>}
    \cup {<<Arrow(FALSE, <<l>>)>> : l \in BBLabels}
    \cup {<<Arrow(TRUE, <<l1, l2>>)>> : l1 \in BBLabels, l2 \in BBLabels}

RECURSIVE EdgeCount(_)
EdgeCount(blocks) ==
    IF blocks = <<>> THEN 0
    ELSE Len(find_successors(Head(blocks).arrows)) + EdgeCount(Tail(blocks))

InitCfg ==
    /\ \E term \in [1..Len(BlockNames) -> Terminators] :
          basic_blocks = [i \in 1..Len(BlockNames) |->
                            [name |-> BlockNames[i], arrows |-> term[i]]]
    /\ EdgeCount(basic_blocks) <= MaxEdges
    /\ paths = <<>>
    /\ idx = 0
    /\ fpc = "start"
    /\ FileUnread

\* the end of the loop body without `idx += 1`
advance_left_out(i) == i

\* idx += 1
advance(i) == i + 1

FlattenStart ==
    /\ fpc = "start"
    /\ paths' = Append(paths, <<basic_blocks[1].name>>)
    /\ idx' = 0
    /\ fpc' = "loop"
    /\ UNCHANGED <<basic_blocks, line_parser, lines_read>>
    /\ UNCHANGED ivars

FlattenStep ==
    /\ fpc = "loop"
    /\ idx # Len(paths)
    /\ LET current_flow == paths[idx + 1]
           last_bb == block_named(current_flow[Len(current_flow)])
           e == extend(current_flow, find_successors(last_bb.arrows))
       IN  IF ~e.ok
           THEN /\ paths' = paths \o e.flows
                /\ idx' = idx
                /\ fpc' = "crashed"
           ELSE IF e.flows # <<>>
           THEN /\ paths' = remove(paths \o e.flows, current_flow)
                /\ idx' = 0
                /\ fpc' = "loop"
           ELSE /\ paths' = paths
                /\ idx' = advance(idx)
                /\ fpc' = "loop"
    /\ UNCHANGED <<basic_blocks, line_parser, lines_read>>
    /\ UNCHANGED ivars

FlattenReturn ==
    /\ fpc = "loop"
    /\ idx = Len(paths)
    /\ fpc' = "done"
    /\ UNCHANGED <<basic_blocks, paths, idx, line_parser, lines_read>>
    /\ UNCHANGED ivars

(***************************************************************************)
(* Specifications.  Spec: the interpreter over the paths of a function     *)
(* made of CoreStatements.  SpecCfg: the path enumerator over every        *)
(* control-flow graph of the four blocks with at most MaxEdges edges;      *)
(* SpecCfgFair: the graphs among them without unknown label, with the loop *)
(* of flatten_cfg kept running.                                            *)
(***************************************************************************)
NoCfg ==
    /\ basic_blocks = <<[name |-> "bb0", arrows |-> <<>>]>>
    /\ paths = <<<<"bb0">>>>
    /\ idx = 1
    /\ fpc = "done"
    /\ FileUnread

Init == InitInterp /\ statements = CoreStatements /\ hist = NoHist /\ NoCfg

Next ==
    \/ StartPath
    \/ \E s \in statements : Statement(s)
    \/ EndPath

Spec == Init /\ [][Next]_allvars

\* a Function made of the statements of `menu`, with the history h
InitWith(menu, h) == InitInterp /\ statements = menu /\ hist = h /\ NoCfg

SpecForget == InitWith(ForgetStatements, NewHist) /\ [][Next]_allvars

SpecForgetWrites == InitWith(ForgetWriteStatements, NewHist) /\ [][Next]_allvars

\* (*_3) = const 5i32;
StoreConst == Assign(Deref("_3"), "const", <<>>, FALSE)
\* (*_3) = _5;
StoreScalar == Assign(Deref("_3"), "place", <<Local("_5")>>, FALSE)
\* (*_1) = (*_3);
StoreDeref == Assign(Deref("_1"), "place", <<Deref("_3")>>, FALSE)

\* stores through the pointers _3 and _1, before and after _2 has ended
StoreStatements ==
    {PtrTakesAddress, ParamGetsPtr, StorageDead("_2"), StoreConst, StoreScalar,
     StoreDeref}

\* _3 = &(_2.0: T);
PtrTakesFieldAddress ==
    Assign(Local("_3"), "place",
           <<Place(FALSE, TRUE, FALSE, "_2", None, "0", TyObject)>>, FALSE)
\* _2 = move _2;
SelfMove == Assign(Local("_2"), "place", <<Moved("_2")>>, FALSE)
\* (_2.0: T) = move _2;
ChildMove == Assign(Field("_2", "0", TyObject), "place", <<Moved("_2")>>, FALSE)

\* moves of the Object _2 onto itself and into its own subtree
MoveStatements ==
    {PtrTakesAddress, PtrTakesFieldAddress, SelfMove, ChildMove, StorageDead("_2"),
     ReadPtr}

\* a pointer that escapes through a parameter and a global, and is read
FindingStatements ==
    {PtrTakesAddress, ParamFieldGetsPtr, GlobalGetsPtr, StorageDead("_2"), ReadPtr}

\* type annotations a MIR place can carry: scalar names, names one character
\* away from them, references, raw pointers and other types
TypeNames ==
    {TyI32, TyU8, TyBool, TyStr, TyRef, TyConstPtr, TyObject,
     <<"i", "1", "2", "8">>, <<"f", "3", "2">>, <<"s", "t", "r">>,
     <<"&", "s", "t", "r", "i", "n", "g">>, <<"&", "m", "u", "t", " ", "T">>,
     <<"*", "m", "u", "t", " ", "T">>, <<"*", "m", "u">>, <<"(", ")">>,
     <<"[", "u", "8", "]">>}

\* _5 = (_2.0: <type_name>);
ReadFieldAs(type_name) ==
    Assign(Local("_5"), "place", <<Field("_2", "0", type_name)>>, FALSE)

TypeStatements == {ReadFieldAs(type_name) : type_name \in TypeNames}

SpecTypes == InitWith(TypeStatements, NoHist) /\ [][Next]_allvars

SpecStore == InitWith(StoreStatements, NewHist) /\ [][Next]_allvars

\* a function whose control-flow graph has one path
NextOnePath ==
    \/ hist.path = "none" /\ StartPath
    \/ \E s \in statements : Statement(s)
    \/ EndPath

SpecMove == InitWith(MoveStatements, NewHist) /\ [][NextOnePath]_allvars

\* the driver's loop over files whose functions are made of FindingStatements
NextFiles ==
    \/ StartPath
    \/ \E s \in statements : Statement(s)
    \/ EndPath
    \/ NextFile

SpecFiles == InitWith(FindingStatements, NewHist) /\ [][NextFiles]_allvars

SpecCopy == InitWith(CopyStatements, NewHist) /\ [][Next]_allvars

\* _5 = [_3, _1];
VectorOfPtrs == Assign(Local("_5"), "vector", <<Local("_3"), Local("_1")>>, FALSE)

\* an aggregate of the pointers _3 and _1, before and after _2 has ended
VectorStatements ==
    {PtrTakesAddress, ParamGetsPtr, StorageDead("_2"), VectorOfPtrs, ReadPtr}

SpecVector == InitWith(VectorStatements, NewHist) /\ [][Next]_allvars

\* (*_3) = move (_2.0: T);
StoreObject ==
    Assign(Deref("_3"), "place",
           <<Place(TRUE, FALSE, FALSE, "_2", None, "0", TyObject)>>, FALSE)
\* (*_3) = &_2;
StoreAddress == Assign(Deref("_3"), "place", <<AddressOf("_2")>>, FALSE)

\* stores of an Object through the pointer _3, set or not, with the copy _1
\* of _3 read afterwards
DerefWriteStatements ==
    {PtrTakesAddress, ParamGetsPtr, StoreObject, StoreAddress, ReadParam}

SpecDerefWrite ==
    InitWith(DerefWriteStatements, NewHist) /\ [][NextOnePath]_allvars

\* pointers to the Object _2 and to its child, one of them re-pointed to the
\* scalar _5, and the move of _2 into a global:
\*   _4 = &_2;   _3 = &_2;   _3 = &(_2.0: T);   _3 = &_5;
\*   (GLOBAL: T) = move _2;
StructMoveStatements ==
    {RefTakesAddress, PtrTakesAddress, PtrTakesFieldAddress,
     Assign(Local("_3"), "place", <<AddressOf("_5")>>, FALSE),
     Assign(Global("GLOBAL", TyObject), "place", <<Moved("_2")>>, FALSE)}

SpecStructMove ==
    InitWith(StructMoveStatements, NewHist) /\ [][NextOnePath]_allvars

\* _1 = const f(move _3) -> [return: bb1, unwind: bb2];
CallReturnsPtr == Assign(Local("_1"), "call", <<Moved("_3")>>, FALSE)

\* calls with one pointer operand, with two operands, with an Object
\* operand, with a scalar destination and with no operand:
\*   _1 = const f(move _3) -> [..];   _1 = const f(move _3, move _4) -> [..];
\*   _1 = const f(move _2) -> [..];   _5 = const f(move _3) -> [..];
\*   _3 = const f() -> [..];
CallStatements ==
    {PtrTakesAddress, RefTakesAddress, CallReturnsPtr,
     Assign(Local("_1"), "call", <<Moved("_3"), Moved("_4")>>, FALSE),
     Assign(Local("_1"), "call", <<Moved("_2")>>, FALSE),
     Assign(Local("_5"), "call", <<Moved("_3")>>, FALSE),
     Assign(Local("_3"), "call", <<>>, FALSE)}

SpecCall == InitWith(CallStatements, NewHist) /\ [][Next]_allvars

\* _3 = _5;
CastToPtr == Assign(Local("_3"), "place", <<Local("_5")>>, FALSE)

\* the rows of the assignment table that leave the edges alone, after `_3`
\* has been made to point to `_2`:
\*   _5 = (*_3);   (GLOBAL: T) = _2;   _2 = (*_3);   (*_3) = const 5i32;
\*   _3 = _5;      (*_3) = _5;
TableStatements ==
    {PtrTakesAddress, ReadPtr,
     Assign(Global("GLOBAL", TyObject), "place", <<Local("_2")>>, FALSE),
     ReferentReadsPtr, StoreConst, CastToPtr, StoreScalar}

SpecTable == InitWith(TableStatements, NewHist) /\ [][Next]_allvars

\* statements the interpreter passes over, around `_3 = &_2;` and
\* `StorageDead(_2);`: a statement of no kind, assignments of a const and
\* assignments whose rhs begins with a name of skipping_functions:
\*   StorageLive(_4);   _2 = const 7;   (*_3) = const 5i32;
\*   (_2.0: *const T) = const 0;   _3 = Add(_5, _5);   _2 = Not(_5);
IgnoredStatements ==
    {PtrTakesAddress, StorageDead("_2"), OtherStatement, ConstToReferent, StoreConst,
     Assign(Field("_2", "0", TyConstPtr), "const", <<>>, FALSE),
     Assign(Local("_3"), "skip", <<>>, FALSE),
     Assign(Local("_2"), "skip", <<>>, FALSE)}

SpecIgnored == InitWith(IgnoredStatements, NewHist) /\ [][Next]_allvars

\* aggregates of one and of two elements assigned to the pointer _1:
\*   _1 = [_3];   _1 = [_3, _3];
AggregateStatements ==
    {PtrTakesAddress, StorageDead("_2"),
     Assign(Local("_1"), "vector", <<Local("_3")>>, FALSE),
     Assign(Local("_1"), "vector", <<Local("_3"), Local("_3")>>, FALSE)}

SpecAggregate == InitWith(AggregateStatements, NewHist) /\ [][Next]_allvars

\* _3 = &_5;
PtrTakesScalarAddress == Assign(Local("_3"), "place", <<AddressOf("_5")>>, FALSE)

\* the scalar _5 as a source, taken by reference or not, and the child _2.0
\* assigned as a pointer and read with a scalar type and with its own:
\*   (*_3) = &_5;   (_2.0: *const T) = _3;   _5 = (_2.0: i32);
\*   _5 = (_2.0: *const T);
ScalarStatements ==
    {PtrTakesAddress, PtrTakesScalarAddress, CastToPtr,
     Assign(Deref("_3"), "place", <<AddressOf("_5")>>, FALSE),
     FieldGetsPtr, ReadFieldAs(TyI32), ReadField}

SpecScalars == InitWith(ScalarStatements, NewHist) /\ [][Next]_allvars

InitEnum == InitCfg /\ InitInterp /\ statements = {} /\ hist = NoHist

NextEnum == FlattenStart \/ FlattenStep \/ FlattenReturn

SpecCfg == InitEnum /\ [][NextEnum]_allvars

\* every successor label is the name of a block of the function
AllDeclared ==
    \A i \in 1..Len(basic_blocks) :
        \A k \in 1..Len(find_successors(basic_blocks[i].arrows)) :
            find_basic_block_by_name(find_successors(basic_blocks[i].arrows)[k],
                                     block_names) # NoBlock

InitDeclared == InitEnum /\ AllDeclared

SpecCfgFair == InitDeclared /\ [][NextEnum]_allvars /\ WF_allvars(NextEnum)

(***************************************************************************)
(* Function.traverse_control_flow_graph_fast: the worklist of flatten_cfg  *)
(* with a counter `marked` on every block, which stops a block from being  *)
(* appended a fourth time.                                                 *)
(***************************************************************************)
\* `if bb.marked > 2` with 3 in the place of 2
marked_out_late(marked) == marked > 3

\* if bb.marked > 2: continue
marked_out(marked) == marked > 2

\* the body of `for successor in successors`: the paths appended, the blocks
\* with their counters, and whether the assert on an unknown label let the
\* loop finish
RECURSIVE visit_successors(_, _, _)
visit_successors(current_path, successors, blocks) ==
    IF successors = <<>> THEN [flows |-> <<>>, ok |-> TRUE, blocks |-> blocks]
    ELSE IF find_basic_block_by_name(Head(successors), current_path) # NoBlock
    THEN visit_successors(current_path, Tail(successors), blocks)
    ELSE IF find_basic_block_by_name(Head(successors), block_names) = NoBlock
    THEN [flows |-> <<>>, ok |-> FALSE, blocks |-> blocks]
    ELSE LET i == CHOOSE k \in 1..Len(blocks) : blocks[k].name = Head(successors)
         IN  IF marked_out(blocks[i].marked)
             THEN visit_successors(current_path, Tail(successors), blocks)
             ELSE LET rest == visit_successors(current_path, Tail(successors),
                                  [blocks EXCEPT ![i].marked = @ + 1])
                  IN  [rest EXCEPT
                         !.flows = <<Append(current_path, Head(successors))>> \o @]

\* BasicBlock.__init__: marked = 0, on every graph of InitCfg
InitMarked ==
    /\ \E term \in [1..Len(BlockNames) -> Terminators] :
          basic_blocks = [i \in 1..Len(BlockNames) |->
                            [name |-> BlockNames[i], arrows |-> term[i],
                             marked |-> 0]]
    /\ EdgeCount(basic_blocks) <= MaxEdges
    /\ paths = <<>>
    /\ idx = 0
    /\ fpc = "start"
    /\ FileUnread

\* one turn of `while idx != len(self.paths)`
FastStep ==
    /\ fpc = "loop"
    /\ idx # Len(paths)
    /\ LET current_path == paths[idx + 1]
           last_bb == block_named(current_path[Len(current_path)])
           e == visit_successors(current_path, find_successors(last_bb.arrows),
                                 basic_blocks)
       IN  /\ basic_blocks' = e.blocks
           /\ IF ~e.ok
              THEN /\ paths' = paths \o e.flows
                   /\ idx' = idx
                   /\ fpc' = "crashed"
              ELSE IF e.flows # <<>>
              THEN /\ paths' = remove(paths \o e.flows, current_path)
                   /\ idx' = 0
                   /\ fpc' = "loop"
              ELSE /\ paths' = paths
                   /\ idx' = advance(idx)
                   /\ fpc' = "loop"
    /\ UNCHANGED <<line_parser, lines_read>>
    /\ UNCHANGED ivars

InitFast == InitMarked /\ AllDeclared /\ InitInterp /\ statements = {} /\ hist = NoHist

NextFast == FlattenStart \/ FastStep \/ FlattenReturn

SpecFastFair == InitFast /\ [][NextFast]_allvars /\ WF_allvars(NextFast)

\* LineParser.run: `for line in lines: self.parse_line(line)`, over the files
\* of at most MaxLines lines of Lines
ParseLine(line) ==
    /\ Len(lines_read) < MaxLines
    /\ line_parser.raised = ""
    /\ line_parser' = parse_line(line_parser, line)
    /\ lines_read' = Append(lines_read, line)
    /\ UNCHANGED <<basic_blocks, paths, idx, fpc>>
    /\ UNCHANGED ivars

NextLines == \E line \in Lines : ParseLine(line)

SpecLines == InitWith({}, NoHist) /\ [][NextLines]_allvars

(***************************************************************************)
(* Properties                                                              *)
(***************************************************************************)
\* a Pointer whose referent has been terminated
Dangling(g, v) ==
    /\ g[v].type = "Pointer"
    /\ g[v].reference_to # None
    /\ g[g[v].reference_to].lifetime_state = "Terminated"

\* the positions in `out` of the path-terminal findings about Variable n
FinalFindings(n) ==
    {i \in 1..Len(out) : out[i].site = "final" /\ out[i].variable = n}

ExactlyWhenDangling(n) ==
    /\ Cardinality(FinalFindings(n)) = IF Dangling(vars, n) THEN 1 ELSE 0
    /\ \A i \in FinalFindings(n) : out[i].reference_to = vars[n].reference_to

SourceFinding(v, u) == [site |-> "source", variable |-> v, reference_to |-> u]

\* C1: an assignment whose rhs is a single source place prints one finding,
\* naming the resolved source Variable and its referent, exactly when that
\* Variable is a Pointer with a non-nil reference_to whose referent is
\* Terminated at that moment, and prints nothing otherwise.
C1_InlineDetection ==
    (pc = "run" /\ last_src # NoSrc) =>
        out = IF /\ last_src.type = "Pointer"
                 /\ last_src.reference_to # None
                 /\ last_src.referent = "Terminated"
              THEN <<SourceFinding(last_src.variable, last_src.reference_to)>>
              ELSE <<>>

\* `_3 = &_2; StorageDead(_2); _5 = (*_3);` has printed its one finding
C1_Witness ==
    /\ pc = "run"
    /\ stmt_no = 3
    /\ last_src.variable = <<"_3">>
    /\ last_src.referent = "Terminated"
    /\ out = <<SourceFinding(<<"_3">>, <<"_2">>)>>

\* C2: after the last statement of a path, every Variable of the globals
\* map and every descendant of one has a path-terminal finding exactly when
\* it is a Pointer with a non-nil reference_to and a Terminated referent.
C2_GlobalDetection ==
    pc = "idle" =>
        \A n \in DOMAIN vars : InSeq(globals, n[1]) => ExactlyWhenDangling(n)

\* a global pointer and its child both left pointing to the terminated _2
C2_Witness ==
    /\ pc = "idle"
    /\ <<"GLOBAL", "0">> \in DOMAIN vars
    /\ Dangling(vars, <<"GLOBAL">>)
    /\ Dangling(vars, <<"GLOBAL", "0">>)
    /\ Len(out) = 2

\* C3: after a path, every Variable below a parameter has a path-terminal
\* finding exactly when it is a dangling Pointer, and a parameter itself
\* has none, dangling or not.
C3_ParameterDetection ==
    pc = "idle" =>
        \A n \in DOMAIN vars :
            InSeq(args, n[1]) =>
                IF Len(n) = 1 THEN FinalFindings(n) = {}
                ELSE ExactlyWhenDangling(n)

\* the parameter _1 and its child are dangling; only the child is reported
C3_Witness ==
    /\ pc = "idle"
    /\ Dangling(vars, <<"_1">>)
    /\ <<"_1", "0">> \in DOMAIN vars
    /\ Dangling(vars, <<"_1", "0">>)
    /\ out = <<[site |-> "final", variable |-> <<"_1", "0">>,
                reference_to |-> <<"_2">>]>>

\* C4: on every control-flow graph whose successor labels are all blocks of
\* the function, the loop of flatten_cfg reaches idx == len(paths) after
\* finitely many steps.
C4_EnumerationTerminates == <>(fpc = "done")

Successors(name) == find_successors(block_named(name).arrows)

\* a graph with a back edge to the entry has been enumerated, the scan
\* index having been reset on the way
C4_Witness ==
    /\ fpc = "done"
    /\ Len(paths) >= 2
    /\ \E i \in 2..Len(basic_blocks) :
          /\ InSeq(find_successors(basic_blocks[i].arrows), "bb0")
          /\ \E k \in 1..Len(paths) : InSeq(paths[k], basic_blocks[i].name)

NoRepeat(p) == \A i, j \in 1..Len(p) : i # j => p[i] # p[j]

\* C5: at every step of flatten_cfg and in its output, every path of the
\* worklist starts with the entry block and holds no block twice.
C5_PathsSimple ==
    fpc # "start" =>
        \A k \in 1..Len(paths) :
            /\ Len(paths[k]) >= 1
            /\ paths[k][1] = basic_blocks[1].name
            /\ NoRepeat(paths[k])

\* a path that ends in a block whose successor it already holds
C5_Witness ==
    /\ fpc = "done"
    /\ \E k \in 1..Len(paths) :
          /\ Len(paths[k]) >= 3
          /\ \E l \in BBLabels :
                /\ InSeq(Successors(paths[k][Len(paths[k])]), l)
                /\ InSeq(paths[k], l)

\* the depth-first walk from the entry that keeps the current path as a stack
RECURSIVE DepthFirstPaths(_)
DepthFirstPaths(stack) ==
    LET onward == {l \in BBLabels :
                      /\ InSeq(Successors(stack[Len(stack)]), l)
                      /\ ~InSeq(stack, l)}
    IN  IF onward = {} THEN {stack}
        ELSE UNION {DepthFirstPaths(Append(stack, l)) : l \in onward}

\* C6: the output of flatten_cfg is the set of paths of the depth-first
\* walk: the maximal simple paths from the entry along successor edges.
C6_SameAsDepthFirst ==
    fpc = "done" =>
        {paths[k] : k \in 1..Len(paths)} = DepthFirstPaths(<<basic_blocks[1].name>>)

\* a diamond: two output paths that end in the same block
C6_Witness ==
    /\ fpc = "done"
    /\ \E j, k \in 1..Len(paths) :
          /\ paths[j] # paths[k]
          /\ Len(paths[j]) = 3
          /\ Len(paths[k]) = 3
          /\ paths[j][3] = paths[k][3]

\* C7: at the start of every path every Variable (children included) is
\* Alive, has no reference_to and an empty referenced_by, and the declared
\* Variables have the kind they were built with.
C7_ResetPurity ==
    (pc = "run" /\ stmt_no = 0) =>
        \A n \in DOMAIN vars :
            /\ vars[n].lifetime_state = "Alive"
            /\ vars[n].reference_to = None
            /\ vars[n].referenced_by = <<>>
            /\ (n \in DOMAIN Built => vars[n].type = Built[n].type)

\* C8: what a path prints, statement by statement and at its end, is what
\* the same path prints on a freshly built function.
C8_PathSensitivity ==
    (pc \in {"run", "idle"} /\ freshPc \in {"run", "idle"}) => out = freshOut

\* C9: after every statement, every Variable v with reference_to u is
\* listed in u.referenced_by.
C9_EdgeConsistency ==
    (pc = "run" /\ stmt_no > 0) =>
        \A v \in DOMAIN vars :
            vars[v].reference_to # None =>
                InSeq(vars[vars[v].reference_to].referenced_by, v)

\* C10: the destination of an assignment is Alive once the statement is
\* done, and no finding of that statement names it as a terminated referent.
C10_ReassignmentRevival ==
    (pc = "run" /\ last_dest.variable # None) =>
        /\ vars[last_dest.variable].lifetime_state = "Alive"
        /\ \A i \in 1..Len(out) : out[i].reference_to # last_dest.variable

\* _2 was Terminated when it was assigned, with the Pointer _3 pointing to it
C10_Witness ==
    /\ pc = "run"
    /\ last_dest = [variable |-> <<"_2">>, was |-> "Terminated"]
    /\ vars[<<"_3">>].reference_to = <<"_2">>
    /\ out = <<>>

HasState(n, state) == n \in DOMAIN vars /\ vars[n].lifetime_state = state

\* C11: a lifetime-end statement leaves in Forgot every Variable that a
\* mem::forget call has put there (the operand and the descendants it had).
C11_ForgetSticky ==
    [][\A s \in statements :
          (s.op = "dead" /\ Statement(s))
          => \A n \in DOMAIN vars :
                vars[n].lifetime_state = "Forgot" => vars'[n].lifetime_state = "Forgot"]_allvars

\* _2 and its child were forgotten, then StorageDead(_2) was interpreted
C11_Witness ==
    /\ pc = "run"
    /\ hist.log = <<ReadField, ForgetReferent, StorageDead("_2")>>
    /\ HasState(<<"_2">>, "Forgot")
    /\ HasState(<<"_2", "0">>, "Forgot")

InOrderBeforeLast(log, a, b, c) ==
    \E i, j, k \in 1..(Len(log) - 1) :
        i < j /\ j < k /\ log[i] = a /\ log[j] = b /\ log[k] = c

PointerLike(type) == type \in {"Reference", "Pointer"}

\* C14: after an assignment whose destination and single source place are
\* both of kind Reference or Pointer, the destination's reference_to is the
\* reference_to the source had, nil included.
C14_PointerCopy ==
    (/\ pc = "run"
     /\ last_src # NoSrc
     /\ last_dest.variable # None
     /\ PointerLike(last_src.type)
     /\ PointerLike(vars[last_dest.variable].type))
    => vars[last_dest.variable].reference_to = last_src.reference_to

\* `_3 = &_2; _1 = _3; StorageDead(_2); _5 = (*_1);` reports _1 referencing _2
C14_Witness ==
    /\ pc = "run"
    /\ hist.log = <<PtrTakesAddress, ParamGetsPtr, StorageDead("_2"), ReadParam>>
    /\ vars[<<"_1">>].reference_to = <<"_2">>
    /\ out = <<SourceFinding(<<"_1">>, <<"_2">>)>>

IsRawPointerName(t) ==
    StartsWith(t, <<"*", "m", "u", "t">>) \/ StartsWith(t, <<"*", "c", "o", "n", "s", "t">>)

\* C15: the kind of every Variable is Scalar iff its type name is one of the
\* twelve scalar names; otherwise Reference iff the name starts with `&`;
\* otherwise Pointer iff it starts with `*mut` or `*const`; otherwise Object.
\* It is never Unset.
C15_KindClassification ==
    \A n \in DOMAIN vars :
        LET t == vars[n].type_name
            kind == vars[n].type
        IN  /\ kind \in {"Scalar", "Reference", "Pointer", "Object"}
            /\ (kind = "Scalar") <=> (t \in scalars)
            /\ (kind = "Reference") <=> (t \notin scalars /\ t[1] = "&")
            /\ (kind = "Pointer")
                 <=> (t \notin scalars /\ t[1] # "&" /\ IsRawPointerName(t))

\* the child _2.0, created by an earlier read, was retyped as `&str`
C15_Witness ==
    /\ pc = "run"
    /\ stmt_no >= 2
    /\ <<"_2", "0">> \in DOMAIN vars
    /\ vars[<<"_2", "0">>].type_name = TyStr
    /\ vars[<<"_2", "0">>].type = "Scalar"

\* C16: a step that printed a finding leaves the analysis running: after an
\* inline finding the interpreter is at the next statement of the path (from
\* where the path-terminal walk follows), after a path-terminal finding it
\* is at the start of the next path; it has neither raised nor hung.
C16_FindingsDoNotInterrupt ==
    out # <<>>
    => /\ pc \in {"run", "idle"}
       /\ (\E i \in 1..Len(out) : out[i].site = "source") => pc = "run"
       /\ (\E i \in 1..Len(out) : out[i].site = "final") => pc = "idle"

\* `_3 = &_2; ((*_1).0: *const T) = _3; StorageDead(_2); _5 = (*_3);` printed
\* its inline finding at the last statement, and the walk after it reported
\* the child of the parameter
C16_Witness ==
    /\ pc = "idle"
    /\ hist.log = <<PtrTakesAddress, ParamFieldGetsPtr, StorageDead("_2"), ReadPtr>>
    /\ out = <<[site |-> "final", variable |-> <<"_1", "0">>, reference_to |-> <<"_2">>]>>

\* C17 as stated: reading, as the single source of an assignment, a
\* Reference whose referent was terminated earlier on the path prints a finding.
C17_ReferencesCovered ==
    (pc = "run" /\ last_src.type = "Reference" /\ last_src.referent = "Terminated")
    => out # <<>>

\* C17, amended: detection covers raw pointers only.  Every finding names a
\* Variable of kind Pointer, and reading a Reference as the single source of
\* an assignment prints nothing, also when its referent was terminated.
C17_PointersOnly ==
    /\ \A i \in 1..Len(out) : vars[out[i].variable].type = "Pointer"
    /\ (pc = "run" /\ last_src.type = "Reference") => out = <<>>

\* `_4 = &_2; StorageDead(_2); _5 = (*_4);` has read the dangling reference
C17_Witness ==
    /\ pc = "run"
    /\ last_src.variable = <<"_4">>
    /\ last_src.type = "Reference"
    /\ last_src.reference_to = <<"_2">>
    /\ last_src.referent = "Terminated"
    /\ out = <<>>

\* a store `(*p) = ...` whose p is a dangling Pointer when it is interpreted
StoreThroughDangling(s) ==
    /\ s.op = "assign"
    /\ s.dest.star
    /\ s.dest.child = NoChild
    /\ Dangling(vars, <<s.dest.root>>)
    /\ Statement(s)

\* C18 as stated: a store through a dangling pointer prints a finding.
C18_StoreReported ==
    [][\A s \in statements : StoreThroughDangling(s) => out' # <<>>]_allvars

\* C18, amended: a store through a dangling pointer is not reported for its
\* destination.  The statement prints a finding only when its single source
\* place resolves to a dangling Pointer, and the finding names that source.
C18_StoreNotReported ==
    [][\A s \in statements :
          StoreThroughDangling(s)
          => IF s.form = "place" /\ Dangling(vars, <<s.src[1].root>>)
             THEN out' = <<SourceFinding(<<s.src[1].root>>,
                                         vars[<<s.src[1].root>>].reference_to)>>
             ELSE out' = <<>>]_allvars

\* `_3 = &_2; StorageDead(_2); (*_3) = const 5i32;` went by without a finding
C18_Witness ==
    /\ pc = "run"
    /\ hist.log = <<PtrTakesAddress, StorageDead("_2"), StoreConst>>
    /\ Dangling(vars, <<"_3">>)
    /\ out = <<>>

\* C19: the interpretation of a statement always comes to an end, a moved
\* Object-to-Object assignment onto the source itself or into its subtree
\* included: the interpreter is never caught in a loop that does not end.
C19_StatementsTerminate == pc # "hang"

LastStatement(s) ==
    /\ pc = "run"
    /\ hist.log # <<>>
    /\ hist.log[Len(hist.log)] = s

\* C21: the inline detection looks at every source place of an aggregate
\* rhs `[e1, e2, ...]`: once the statement has been interpreted, each element
\* that is a Pointer whose referent is Terminated has its finding printed.
\* (The aggregate assigns to _5 and its children, so an element dangles
\* after the statement exactly when it dangled as it was resolved.)
C21_AggregateElementsChecked ==
    LastStatement(VectorOfPtrs)
    => \A i \in 1..Len(VectorOfPtrs.src) :
          Dangling(vars, <<VectorOfPtrs.src[i].root>>)
          => \E k \in 1..Len(out) :
                out[k] = SourceFinding(<<VectorOfPtrs.src[i].root>>,
                                       vars[<<VectorOfPtrs.src[i].root>>].reference_to)

\* the kind of the Variable a place names, from the type the place spells
\* or, for a local, the type of its declaration
PlaceKind(p) ==
    set_type(IF p.child # NoChild THEN p.child_type
             ELSE IF is_local_variable(p.root) THEN DeclaredType(p.root)
             ELSE p.root_type)

\* the Variable a place without dereferenced projections names
PlaceId(p) == IF p.child = NoChild THEN <<p.root>> ELSE <<p.root, p.child>>

\* a statement `(*p) = <place>` whose p is a Reference or a Pointer and whose
\* source place resolves to an Object
ObjectStore(s) ==
    /\ s.op = "assign"
    /\ s.form = "place"
    /\ s.dest.star
    /\ s.dest.child = NoChild
    /\ vars[<<s.dest.root>>].type \in {"Reference", "Pointer"}
    /\ PlaceKind(s.src[1]) = "Object"

\* C22: a store of an Object through a Reference or Pointer dv that points
\* to r ends the lifetime of r and re-points dv: after the statement
\* r.lifetime_state is Terminated and dv.reference_to is the source.
C22_DerefWriteTerminates ==
    [][\A s \in statements :
          (/\ ObjectStore(s)
           /\ vars[<<s.dest.root>>].reference_to # None
           /\ Statement(s))
          => /\ vars'[vars[<<s.dest.root>>].reference_to].lifetime_state = "Terminated"
             /\ vars'[<<s.dest.root>>].reference_to = PlaceId(s.src[1])]_allvars

\* C23: the lifetime_state of every Variable is one of Alive, Terminated,
\* Forgot and Uninitialized.
C23_LifetimeStateDomain ==
    \A v \in DOMAIN vars :
        vars[v].lifetime_state \in {"Alive", "Terminated", "Forgot", "Uninitialized"}

\* C24: a store of an Object through a Reference or Pointer dv that points
\* to nothing is an anomaly, not a finding: the statement prints nothing,
\* changes no reference_to and no referenced_by, changes no lifetime_state
\* but that of dv, which it brings back to life, and the interpreter goes on.
C24_UninitializedStoreIsAnomaly ==
    [][\A s \in statements :
          (/\ ObjectStore(s)
           /\ vars[<<s.dest.root>>].reference_to = None
           /\ Statement(s))
          => /\ out' = <<>>
             /\ pc' = "run"
             /\ \A v \in DOMAIN vars' :
                   IF v \in DOMAIN vars
                   THEN /\ vars'[v].reference_to = vars[v].reference_to
                        /\ vars'[v].referenced_by = vars[v].referenced_by
                        /\ vars'[v].lifetime_state =
                              IF v = <<s.dest.root>> THEN "Alive"
                              ELSE vars[v].lifetime_state
                   ELSE /\ vars'[v].reference_to = None
                        /\ vars'[v].referenced_by = <<>>]_allvars

\* C25: an unexpected combination in the assignment table, such as a store
\* through a Reference or Pointer whose Object source is taken with `&`, does
\* not stop the analysis: after the statement the interpreter is ready for
\* the next statement or has gone on to the end of the path.
C25_UnexpectedCombinationGoesOn ==
    (hist.log # <<>> /\ hist.log[Len(hist.log)] = StoreAddress)
    => pc \in {"run", "idle"}

\* a statement `d = move s` between two Objects
StructuralMove(s) ==
    /\ s.op = "assign"
    /\ s.form = "place"
    /\ s.src[1].move
    /\ ~s.dest.star
    /\ PlaceKind(s.dest) = "Object"
    /\ PlaceKind(s.src[1]) = "Object"

\* n is Variable `root` or one of its descendants
InSubtree(n, root) ==
    /\ Len(n) >= Len(root)
    /\ SubSeq(n, 1, Len(root)) = root

\* C26: after a moved Object-to-Object assignment every Variable whose
\* reference_to was the source or one of its descendants points to the
\* corresponding Variable of the destination: the root for the root, the
\* child with key k of the destination for the child with key k, and so on.
C26_StructuralMove ==
    [][\A s \in statements :
          (StructuralMove(s) /\ Statement(s))
          => \A v \in DOMAIN vars :
                InSubtree(vars[v].reference_to, PlaceId(s.src[1]))
                => vars'[v].reference_to =
                      PlaceId(s.dest)
                      \o SubSeq(vars[v].reference_to, Len(PlaceId(s.src[1])) + 1,
                                Len(vars[v].reference_to))]_allvars

\* C27: a structural move changes the reference_to of those Variables only
\* whose reference_to, right before the statement, is the source or one of
\* its descendants: a Variable that pointed into the source subtree earlier
\* and has been re-pointed since keeps the reference_to it has.
C27_StaleLinksInert ==
    [][\A s \in statements :
          (StructuralMove(s) /\ Statement(s))
          => \A v \in DOMAIN vars :
                ~InSubtree(vars[v].reference_to, PlaceId(s.src[1]))
                => vars'[v].reference_to = vars[v].reference_to]_allvars

PointerKind(k) == k = "Reference" \/ k = "Pointer"

\* C28: a call with exactly one `move` operand, when the operand and the
\* destination dv are References or Pointers, makes dv.reference_to the
\* reference_to of the operand; every other call changes the reference_to
\* of no Variable.
C28_CallPropagation ==
    [][\A s \in statements :
          (s.op = "assign" /\ s.form = "call" /\ Statement(s))
          => IF /\ Len(s.src) = 1
                /\ PointerKind(PlaceKind(s.src[1]))
                /\ PointerKind(PlaceKind(s.dest))
             THEN vars'[PlaceId(s.dest)].reference_to =
                     vars[PlaceId(s.src[1])].reference_to
             ELSE \A v \in DOMAIN vars :
                     vars'[v].reference_to = vars[v].reference_to]_allvars

\* `_3 = &_2; _1 = const f(move _3) -> [..];` has made _1 point to _2
C28_Witness ==
    /\ LastStatement(CallReturnsPtr)
    /\ hist.log = <<PtrTakesAddress, CallReturnsPtr>>
    /\ vars[<<"_3">>].reference_to = <<"_2">>
    /\ vars[<<"_1">>].reference_to = <<"_2">>

\* C29: StorageDead(x) changes the lifetime_state of x and nothing else: x
\* becomes Terminated, or stays as it is when it is Forgot, while the
\* lifetime_state of its children and of every other Variable, every
\* reference_to and every referenced_by stay as they are.
C29_LifetimeEndFrame ==
    [][\A s \in statements :
          (s.op = "dead" /\ Statement(s))
          => /\ DOMAIN vars' = DOMAIN vars
             /\ vars'[<<s.operand>>].lifetime_state =
                   IF vars[<<s.operand>>].lifetime_state = "Forgot" THEN "Forgot"
                   ELSE "Terminated"
             /\ \A v \in DOMAIN vars :
                   /\ v # <<s.operand>>
                      => vars'[v].lifetime_state = vars[v].lifetime_state
                   /\ vars'[v].reference_to = vars[v].reference_to
                   /\ vars'[v].referenced_by = vars[v].referenced_by]_allvars

\* `_3 = &_2; _5 = (_2.0: *const T); StorageDead(_2);` has ended _2 and left
\* its child alive and the edge from _3 in place
C29_Witness ==
    /\ LastStatement(StorageDead("_2"))
    /\ hist.log = <<PtrTakesAddress, ReadField, StorageDead("_2")>>
    /\ vars[<<"_2">>].lifetime_state = "Terminated"
    /\ vars[<<"_2", "0">>].lifetime_state = "Alive"
    /\ vars[<<"_3">>].reference_to = <<"_2">>
    /\ vars[<<"_2">>].referenced_by = <<<<"_3">>>>

\* an assignment of one of the rows that leave the edges alone: a Scalar
\* destination; an Object destination with an Object source that is not
\* moved or with a Reference or Pointer source; a Reference or Pointer
\* destination with a const, with a Scalar source not taken by reference, or
\* with a Scalar source while the destination is dereferenced
EdgePreservingRow(s) ==
    /\ s.op = "assign"
    /\ s.form \in {"place", "const"}
    /\ \/ PlaceKind(s.dest) = "Scalar"
       \/ /\ PlaceKind(s.dest) = "Object"
          /\ s.form = "place"
          /\ \/ PlaceKind(s.src[1]) = "Object" /\ ~s.src[1].move
             \/ PointerKind(PlaceKind(s.src[1]))
       \/ /\ PointerKind(PlaceKind(s.dest))
          /\ \/ s.form = "const"
             \/ /\ s.form = "place"
                /\ PlaceKind(s.src[1]) = "Scalar"
                /\ ~s.src[1].amp \/ s.dest.star

\* C30: an assignment of one of these rows changes no reference_to and no
\* referenced_by: the Variables there were keep theirs, and a Variable the
\* statement created has none.
C30_EdgePreservingRows ==
    [][\A s \in statements :
          (EdgePreservingRow(s) /\ Statement(s))
          => \A v \in DOMAIN vars' :
                IF v \in DOMAIN vars
                THEN /\ vars'[v].reference_to = vars[v].reference_to
                     /\ vars'[v].referenced_by = vars[v].referenced_by
                ELSE /\ vars'[v].reference_to = None
                     /\ vars'[v].referenced_by = <<>>]_allvars

\* `_3 = &_2; _3 = _5;` has left _3 pointing to _2
C30_Witness ==
    /\ LastStatement(CastToPtr)
    /\ hist.log = <<PtrTakesAddress, CastToPtr>>
    /\ vars[<<"_3">>].reference_to = <<"_2">>
    /\ vars[<<"_2">>].referenced_by = <<<<"_3">>>>

C32_AggregateAssignsChildren ==
    [][\A s \in statements :
          (s.op = "assign" /\ s.form = "vector" /\ Statement(s))
          => /\ \A i \in 1..Len(s.src) :
                   /\ Append(PlaceId(s.dest), ToString(i - 1)) \in DOMAIN vars'
                   /\ PointerKind(PlaceKind(s.src[i]))
                      => vars'[Append(PlaceId(s.dest), ToString(i - 1))].reference_to
                            = vars[PlaceId(s.src[i])].reference_to
             /\ vars'[PlaceId(s.dest)].reference_to
                   = vars[PlaceId(s.dest)].reference_to]_allvars

\* C33 as stated: no Variable's reference_to is a Variable of kind Scalar.
C33_ScalarsNeverReferents ==
    \A v \in DOMAIN vars :
        vars[v].reference_to # None => vars[vars[v].reference_to].type # "Scalar"

\* C33, amended: a Scalar becomes a referent by having its address taken.
\* An assignment whose single source place is a Scalar s makes its
\* destination dv point to s when s is taken by reference (`&s`) and dv is a
\* Reference or Pointer that is not dereferenced; with any other destination
\* or mode it changes the reference_to of no Variable.
C33_ScalarReferentByAddress ==
    [][\A s \in statements :
          (/\ s.op = "assign"
           /\ s.form = "place"
           /\ PlaceKind(s.src[1]) = "Scalar"
           /\ Statement(s))
          => IF PointerKind(PlaceKind(s.dest)) /\ s.src[1].amp /\ ~s.dest.star
             THEN vars'[PlaceId(s.dest)].reference_to = PlaceId(s.src[1])
             ELSE \A v \in DOMAIN vars :
                     vars'[v].reference_to = vars[v].reference_to]_allvars

\* `_3 = &_2; _3 = &_5;` has made the scalar _5 the referent of _3
C33_Witness ==
    /\ LastStatement(PtrTakesScalarAddress)
    /\ hist.log = <<PtrTakesAddress, PtrTakesScalarAddress>>
    /\ vars[<<"_5">>].type = "Scalar"
    /\ vars[<<"_3">>].reference_to = <<"_5">>
    /\ vars[<<"_5">>].referenced_by = <<<<"_3">>>>

\* C34: every Variable whose kind is Scalar has no reference_to, a child
\* included whose type was inferred anew after it had been assigned as a
\* pointer.
C34_ScalarsCarryNoEdge ==
    \A v \in DOMAIN vars : vars[v].type = "Scalar" => vars[v].reference_to = None

\* a place that names a child with the type it is to have
RetypingPlace(p) == p.child # NoChild /\ p.child_type # None /\ ~p.star

\* C39: when the source place of an assignment to the scalar _5 names a child
\* that exists, with a type, the type_name and the kind of the child become
\* those of that type, and its lifetime_state, reference_to, referenced_by
\* and children and every other Variable stay as they are.
C39_ChildRetyping ==
    [][\A s \in statements :
          (/\ s.op = "assign"
           /\ s.form = "place"
           /\ s.dest = Local("_5")
           /\ RetypingPlace(s.src[1])
           /\ PlaceId(s.src[1]) \in DOMAIN vars
           /\ Statement(s))
          => /\ vars'[PlaceId(s.src[1])] =
                   [vars[PlaceId(s.src[1])] EXCEPT
                       !.type_name = s.src[1].child_type,
                       !.type = set_type(s.src[1].child_type)]
             /\ \A v \in DOMAIN vars' :
                   v # PlaceId(s.src[1]) => v \in DOMAIN vars /\ vars'[v] = vars[v]]_allvars

\* `_3 = &_2; (_2.0: *const T) = _3; _5 = (_2.0: i32);` has made the child
\* a Scalar that still points to _2
C39_Witness ==
    /\ LastStatement(ReadFieldAs(TyI32))
    /\ hist.log = <<PtrTakesAddress, FieldGetsPtr, ReadFieldAs(TyI32)>>
    /\ vars[<<"_2", "0">>].type_name = TyI32
    /\ vars[<<"_2", "0">>].type = "Scalar"
    /\ vars[<<"_2", "0">>].reference_to = <<"_2">>
    /\ vars[<<"_2">>].referenced_by = <<<<"_3">>, <<"_2", "0">>>>

\* C35: the output of flatten_cfg is a set: it never holds the same path
\* (the same sequence of blocks) twice, also when a terminator names the
\* same successor more than once.
C35_PathsAreASet ==
    fpc = "done" =>
        \A j, k \in 1..Len(paths) : j # k => paths[j] # paths[k]

\* C38: traverse_control_flow_graph_fast comes to its end on every graph
\* whose successor labels are all blocks of the function; at every step each
\* path of the worklist starts with the entry block and holds no block twice,
\* and no block has been appended to a path more than 3 times (the entry
\* block never).
C38_FastTraversal ==
    /\ <>(fpc = "done")
    /\ [](fpc # "start" =>
            /\ \A k \in 1..Len(paths) :
                  /\ Len(paths[k]) >= 1
                  /\ paths[k][1] = basic_blocks[1].name
                  /\ NoRepeat(paths[k])
            /\ basic_blocks[1].marked = 0
            /\ \A i \in 1..Len(basic_blocks) : basic_blocks[i].marked <= 3)

\* the number of walks from `stack` on that repeat no block, a successor
\* named twice counted twice
RECURSIVE WalkCount(_)
WalkCount(stack) ==
    LET succ == Successors(stack[Len(stack)])
        RECURSIVE Sum(_)
        Sum(k) == IF k = 0 THEN 0
                  ELSE Sum(k - 1)
                       + (IF InSeq(stack, succ[k]) THEN 0
                          ELSE WalkCount(Append(stack, succ[k])))
    IN  IF \A k \in 1..Len(succ) : InSeq(stack, succ[k]) THEN 1 ELSE Sum(Len(succ))

\* the traversal has ended with fewer paths than there are walks, a block
\* having been left out because three paths already held it
C38_Witness ==
    /\ fpc = "done"
    /\ \E i \in 1..Len(basic_blocks) : basic_blocks[i].marked = 3
    /\ Len(paths) < WalkCount(<<basic_blocks[1].name>>)
\* C36: once parse_line has processed a function-header line, whatever the
\* state it found the LineParser in, parsing_function is true and
\* parsing_basic_block is false.
C36_HeaderLeavesBlock ==
    LET last == lines_read[Len(lines_read)]
    IN  (/\ lines_read # <<>>
         /\ ~is_empty_line(last)
         /\ ~is_comment(last)
         /\ is_function_declaration(last))
        => /\ line_parser.parsing_function
           /\ ~line_parser.parsing_basic_block

\* a line that is neither blank, comment, function header, block header
\* nor block end
StatementShaped(line) ==
    /\ ~is_empty_line(line)
    /\ ~is_comment(line)
    /\ ~is_function_declaration(line)
    /\ ~is_basic_block_declaration(line)
    /\ ~is_end(line)

\* C37: parse_line appends a line to a block only while parsing_basic_block
\* holds, and then at the end of the block opened last in the current
\* function; every other block keeps its statements, and so does every block
\* on a line read outside a block; a block-end line read inside a block sets
\* parsing_basic_block to false and is appended nowhere.
C37_StatementRouting ==
    [][\A line \in Lines :
          ParseLine(line) =>
              LET f == line_parser.function
                  g == line_parser'.function
                  routed == /\ line_parser.parsing_basic_block
                            /\ StatementShaped(line)
              IN  /\ \A i \in 1..Len(g.basic_blocks) :
                        LET old == IF i <= Len(f.basic_blocks)
                                   THEN f.basic_blocks[i].statements
                                   ELSE <<>>
                        IN  g.basic_blocks[i].statements =
                                IF routed /\ i = Len(g.basic_blocks)
                                THEN Append(old, line)
                                ELSE old
                  /\ (~is_empty_line(line) /\ is_end(line)
                         /\ line_parser.parsing_basic_block)
                     => ~line_parser'.parsing_basic_block]_allvars

\* a statement line read in the second block of a function: it is the only
\* statement of that block and the first block holds none
C37_Witness ==
    /\ Len(line_parser.function.basic_blocks) = 2
    /\ line_parser.function.basic_blocks[1].statements = <<>>
    /\ line_parser.function.basic_blocks[2].statements = << << <<"r", "e", "t", "u", "r", "n", ";">> >> >>
    /\ lines_read[Len(lines_read)] = << <<"r", "e", "t", "u", "r", "n", ";">> >>

====
